---- MODULE Spec2Model ----
(***************************************************************************)
(* Model of oapi-codegen-validator: the enricher that derives validator    *)
(* rules from OpenAPI constraints (generateRules), merges them with the    *)
(* rules already stored on a property (mergeRules), and writes the result  *)
(* back into the property's x-oapi-codegen-extra-tags extension while      *)
(* walking the component schemas in pre-order (tree.PreOrder).             *)
(*                                                                         *)
(* Strings are sequences of one-character strings, so that formatting,     *)
(* splitting, trimming and joining are computed, not assumed.              *)
(***************************************************************************)
EXTENDS Integers, Sequences, FiniteSets, TLC

VARIABLES
    inp,         \* argument of the pure function under test (SpecGen, SpecMerge)
    res,         \* results of the calls made so far, oldest first
    components,  \* doc.Components.Schemas: name -> schema reference
    schemas,     \* the heap of *openapi3.Schema objects, by identity
    pc,          \* "walk" (inside PreOrder), "enrich" (inside enrichNode), "done"
    stack,       \* PreOrder's active iterators, innermost last
    cur,         \* the node enrichNode is working on
    todo,        \* the properties enrichNode's loop has still to reach
    errs,        \* the errors enrichSpec has joined so far
    out,         \* the nodes PreOrder has yielded so far
    writes,      \* per property <<schema, name>>: how often this pass wrote or
                 \* deleted its tag slot
    pass,        \* the number of the enrichSpec pass under way
    before,      \* the schemas as they were when this pass began
    last,        \* what the latest iteration of enrichNode's loop did
    wstack,      \* SpecWalk: PreOrder's active iterators, innermost last
    wout,        \* SpecWalk: the nodes yielded to the consumer so far
    wpc,         \* SpecWalk: "run", "unwind" (yield returned false), "done"
    calls        \* SpecWalk: the nodes getChildren was called on so far

fvars == <<inp, res>>

dvars == <<components, schemas, pc, stack, cur, todo, errs, out, writes, pass,
           before, last>>

wvars == <<wstack, wout, wpc, calls>>

vars == <<inp, res, components, schemas, pc, stack, cur, todo, errs, out,
          writes, pass, before, last, wstack, wout, wpc, calls>>

\* A Go pointer (or error): Nil, or Ptr(v) holding v
Nil == <<>>

Ptr(v) == <<v>>

Deref(p) == p[1]

(***************************************************************************)
(* Bounds.                                                                 *)
(***************************************************************************)
MaxVal == 1        \* lengths and item counts are 5*i for i in 0..MaxVal
MaxCalls == 2      \* calls of a pure function on one input
MaxRules == 2      \* length of the rule lists handed to mergeRules
MaxPasses == 2     \* enrichSpec passes over one document
MaxNodes == 4      \* nodes of the forest PreOrder walks in SpecWalk

(***************************************************************************)
(* Strings.                                                                *)
(***************************************************************************)
Digits == <<"0", "1", "2", "3", "4", "5", "6", "7", "8", "9">>

\* fmt.Sprintf("%d", n) for an unsigned n
RECURSIVE FmtD(_)
FmtD(n) == IF n < 10 THEN <<Digits[n + 1]>>
           ELSE FmtD(n \div 10) \o <<Digits[(n % 10) + 1]>>

\* fmt.Sprintf("%.0f", x) for the float64 x = h/2 (h counts halves, which a
\* float64 holds exactly): no fractional digits, ties rounded to even, and the
\* sign kept even when the digits round to zero ("-0").
FmtF0(h) ==
    LET a == IF h < 0 THEN 0 - h ELSE h
        q == a \div 2
        r == IF a % 2 = 0 THEN q ELSE IF q % 2 = 0 THEN q ELSE q + 1
    IN  (IF h < 0 THEN <<"-">> ELSE <<>>) \o FmtD(r)

\* strings.Index(s, c) for a one-character c: 0-based, -1 when absent
RECURSIVE IndexFrom(_, _, _)
IndexFrom(s, c, i) ==
    IF i > Len(s) THEN -1
    ELSE IF s[i] = c THEN i - 1
    ELSE IndexFrom(s, c, i + 1)

IndexOf(s, c) == IndexFrom(s, c, 1)

IsSpace(c) == c \in {" ", "\t", "\n"}

\* strings.TrimSpace
RECURSIVE TrimLeft(_)
TrimLeft(s) == IF s # <<>> /\ IsSpace(Head(s)) THEN TrimLeft(Tail(s)) ELSE s

RECURSIVE TrimRight(_)
TrimRight(s) == IF s # <<>> /\ IsSpace(s[Len(s)])
                THEN TrimRight(SubSeq(s, 1, Len(s) - 1)) ELSE s

TrimSpace(s) == TrimRight(TrimLeft(s))

\* strings.SplitSeq(s, ","): the pieces between commas, empty pieces included
RECURSIVE SplitSeq(_)
SplitSeq(s) ==
    LET i == IndexOf(s, ",")
    IN  IF i = -1 THEN <<s>>
        ELSE <<SubSeq(s, 1, i)>> \o SplitSeq(SubSeq(s, i + 2, Len(s)))

\* strings.Join(elems, ",")
RECURSIVE Join(_)
Join(elems) ==
    IF elems = <<>> THEN <<>>
    ELSE IF Len(elems) = 1 THEN elems[1]
    ELSE elems[1] \o <<",">> \o Join(Tail(elems))

\* the rule words the program writes
required == <<"r", "e", "q", "u", "i", "r", "e", "d">>
omitempty == <<"o", "m", "i", "t", "e", "m", "p", "t", "y">>
MinEq == <<"m", "i", "n", "=">>
MaxEq == <<"m", "a", "x", "=">>
GtEq == <<"g", "t", "=">>
LtEq == <<"l", "t", "=">>
RegexEq == <<"r", "e", "g", "e", "x", "=">>
unique == <<"u", "n", "i", "q", "u", "e">>
email == <<"e", "m", "a", "i", "l">>
uuid == <<"u", "u", "i", "d">>
ipv4 == <<"i", "p", "v", "4">>
ipv6 == <<"i", "p", "v", "6">>
url == <<"u", "r", "l">>

Min3 == MinEq \o <<"3">>
Min5 == MinEq \o <<"5">>
Max5 == MaxEq \o <<"5">>

(***************************************************************************)
(* getTagKey: the part of a rule before its first '=', or the whole rule.  *)
(***************************************************************************)
getTagKey(tag) ==
    LET idx == IndexOf(tag, "=")
    IN  IF idx # -1 THEN SubSeq(tag, 1, idx) ELSE tag

(***************************************************************************)
(* generateRules.  A schema's constraint fields: MultipleOf, MaxLength,    *)
(* Min, Max, MaxItems are pointers (Nil when absent); Min and Max count   *)
(* halves; Pattern and Format are plain TLA+ strings (only compared).      *)
(***************************************************************************)
\* regexp.Compile(p) succeeds; of the patterns used here only "(" is not RE2
ValidRE2(p) == p # "("

PatternChars(p) ==
    CASE p = "a" -> <<"a">>
      [] p = "(" -> <<"(">>
      [] p = "a,b" -> <<"a", ",", "b">>
      [] OTHER -> <<>>

Opt(cond, tag) == IF cond THEN <<tag>> ELSE <<>>

FormatRule(format) ==
    CASE format = "email" -> <<email>>
      [] format = "uuid" -> <<uuid>>
      [] format = "ipv4" -> <<ipv4>>
      [] format = "ipv6" -> <<ipv6>>
      [] format \in {"uri", "url"} -> <<url>>
      [] OTHER -> <<>>

generateRulesItemsFirst(s) ==
    IF s.MultipleOf # Nil
    THEN [tags |-> <<>>, err |-> Ptr([kind |-> "multipleOf"])]
    ELSE IF s.Pattern # "" /\ ~ValidRE2(s.Pattern)
    THEN [tags |-> <<>>, err |-> Ptr([kind |-> "pattern"])]
    ELSE [tags |->
              Opt(s.Pattern # "", RegexEq \o PatternChars(s.Pattern))
              \o Opt(s.MinItems > 0, MinEq \o FmtD(s.MinItems))
              \o Opt(s.MaxItems # Nil, MaxEq \o FmtD(Deref(s.MaxItems)))
              \o Opt(s.MinLength > 0, MinEq \o FmtD(s.MinLength))
              \o Opt(s.MaxLength # Nil, MaxEq \o FmtD(Deref(s.MaxLength)))
              \o Opt(s.Min # Nil,
                     (IF s.ExclusiveMin THEN GtEq ELSE MinEq) \o FmtF0(Deref(s.Min)))
              \o Opt(s.Max # Nil,
                     (IF s.ExclusiveMax THEN LtEq ELSE MaxEq) \o FmtF0(Deref(s.Max)))
              \o Opt(s.UniqueItems, unique)
              \o FormatRule(s.Format),
          err |-> Nil]

generateRules(s) ==
    IF s.MultipleOf # Nil
    THEN [tags |-> <<>>, err |-> Ptr([kind |-> "multipleOf"])]
    ELSE IF s.Pattern # "" /\ ~ValidRE2(s.Pattern)
    THEN [tags |-> <<>>, err |-> Ptr([kind |-> "pattern"])]
    ELSE LET t1 == IF s.Pattern # ""
                   THEN <<RegexEq \o PatternChars(s.Pattern)>> ELSE <<>>
             t2 == IF s.MinLength > 0
                   THEN Append(t1, MinEq \o FmtD(s.MinLength)) ELSE t1
             t3 == IF s.MaxLength # Nil
                   THEN Append(t2, MaxEq \o FmtD(Deref(s.MaxLength))) ELSE t2
             t4 == IF s.Min # Nil
                   THEN Append(t3, (IF s.ExclusiveMin THEN GtEq ELSE MinEq)
                                   \o FmtF0(Deref(s.Min)))
                   ELSE t3
             t5 == IF s.Max # Nil
                   THEN Append(t4, (IF s.ExclusiveMax THEN LtEq ELSE MaxEq)
                                   \o FmtF0(Deref(s.Max)))
                   ELSE t4
             t6 == IF s.MinItems > 0
                   THEN Append(t5, MinEq \o FmtD(s.MinItems)) ELSE t5
             t7 == IF s.MaxItems # Nil
                   THEN Append(t6, MaxEq \o FmtD(Deref(s.MaxItems))) ELSE t6
             t8 == IF s.UniqueItems THEN Append(t7, unique) ELSE t7
         IN  [tags |-> t8 \o FormatRule(s.Format), err |-> Nil]

(***************************************************************************)
(* mergeRules.  existingKeys is the Go map key -> rule; a later rule with  *)
(* the same key replaces the earlier entry.                                *)
(***************************************************************************)
MapPut(m, k, v) == [x \in DOMAIN m \cup {k} |-> IF x = k THEN v ELSE m[x]]

EmptyMap == [x \in {} |-> <<>>]

\* the first loop: trimmed, non-empty existing rules kept in order
RECURSIVE MergeExisting(_, _)
MergeExisting(existingRules, acc) ==
    IF existingRules = <<>> THEN acc
    ELSE LET part == TrimSpace(Head(existingRules))
         IN  IF part = <<>>
             THEN MergeExisting(Tail(existingRules), acc)
             ELSE MergeExisting(Tail(existingRules),
                      [rules |-> Append(acc.rules, part),
                       existingKeys |-> MapPut(acc.existingKeys, getTagKey(part), part),
                       err |-> Nil])

\* one iteration of the second loop, for the generated rule tag
MergeOneNoRecord(acc, tag) ==
    LET key == getTagKey(tag)
    IN  IF key \in DOMAIN acc.existingKeys
        THEN IF acc.existingKeys[key] # tag
             THEN [acc EXCEPT !.err = Ptr([kind |-> "conflict", existing |-> acc.existingKeys[key],
                                           generated |-> tag])]
             ELSE acc
        ELSE [acc EXCEPT !.rules = Append(acc.rules, tag)]

MergeOne(acc, tag) ==
    LET key == getTagKey(tag)
    IN  IF key \in DOMAIN acc.existingKeys
        THEN IF acc.existingKeys[key] # tag
             THEN [acc EXCEPT !.err = Ptr([kind |-> "conflict", existing |-> acc.existingKeys[key],
                                           generated |-> tag])]
             ELSE acc
        ELSE [acc EXCEPT !.rules = Append(acc.rules, tag),
                         !.existingKeys = MapPut(acc.existingKeys, key, tag)]

RECURSIVE MergeNew(_, _)
MergeNew(newRules, acc) ==
    IF newRules = <<>> \/ acc.err # Nil THEN acc
    ELSE MergeNew(Tail(newRules), MergeOne(acc, Head(newRules)))

mergeRules(existingRules, newRules) ==
    LET acc == MergeNew(newRules,
                   MergeExisting(existingRules,
                       [rules |-> <<>>, existingKeys |-> EmptyMap, err |-> Nil]))
    IN  IF acc.err # Nil THEN [rules |-> <<>>, err |-> acc.err]
        ELSE [rules |-> acc.rules, err |-> Nil]

(***************************************************************************)
(* The extension metadata of a schema.  Extensions is a Go map (Nil, or a  *)
(* map that may hold tagKey); the value under tagKey is itself a map that  *)
(* may hold validate.  Maps are functions on their key sets.               *)
(***************************************************************************)
tagKey == "x-oapi-codegen-extra-tags"
validate == "validate"

MapDel(m, k) == [x \in DOMAIN m \ {k} |-> m[x]]

\* the comma-separated pieces of a stored value, trimmed, empty ones dropped
ParseRules(existingVal) ==
    IF existingVal = <<>> THEN <<>>
    ELSE LET parts == SplitSeq(existingVal)
         IN  SelectSeq([i \in 1..Len(parts) |-> TrimSpace(parts[i])],
                       LAMBDA part : part # <<>>)

extractAndResetValidateRulesDropping(s) ==
    LET ext == IF s.Extensions = Nil THEN EmptyMap ELSE Deref(s.Extensions)
        ok == tagKey \in DOMAIN ext
        extMap == MapDel(IF ok THEN ext[tagKey] ELSE EmptyMap, validate)
    IN  [rules |-> <<>>,
         extMap |-> extMap,
         schema |-> [s EXCEPT !.Extensions =
                        Ptr(IF ok THEN MapPut(ext, tagKey, extMap) ELSE ext)]]

\* returns the stored rules and the inner map without its validate entry;
\* the inner map is the document's own map when the document had one, so
\* the deletion shows in the document (schema is s after the call)
extractAndResetValidateRules(s) ==
    LET ext == IF s.Extensions = Nil THEN EmptyMap ELSE Deref(s.Extensions)
        ok == tagKey \in DOMAIN ext
        extMap0 == IF ok THEN ext[tagKey] ELSE EmptyMap
        existingVal == IF validate \in DOMAIN extMap0 THEN extMap0[validate] ELSE <<>>
        extMap == MapDel(extMap0, validate)
    IN  [rules |-> ParseRules(existingVal),
         extMap |-> extMap,
         schema |-> [s EXCEPT !.Extensions =
                        Ptr(IF ok THEN MapPut(ext, tagKey, extMap) ELSE ext)]]

(***************************************************************************)
(* enrichNode, one iteration of its loop.                                  *)
(***************************************************************************)
Contains(list, x) == \E i \in 1..Len(list) : list[i] = x

PrefixRulesAppending(isRequired, rules) ==
    IF isRequired THEN Append(rules, required)
    ELSE IF Len(rules) > 0 THEN Append(rules, omitempty)
    ELSE <<>>

\* the rules with their leading word; <<>> when nothing is to be emitted
PrefixRules(isRequired, rules) ==
    IF isRequired THEN <<required>> \o rules
    ELSE IF Len(rules) > 0 THEN <<omitempty>> \o rules
    ELSE <<>>

\* delete(propRef.Value.Extensions, tagKey)
DeleteTagKey(s) == [s EXCEPT !.Extensions = Ptr(MapDel(Deref(@), tagKey))]

\* extMap[validate] = value; propRef.Value.Extensions[tagKey] = extMap
WriteValidate(s, extMap, value) ==
    [s EXCEPT !.Extensions = Ptr(MapPut(Deref(@), tagKey, MapPut(extMap, validate, value)))]

\* the loop body for property propName of node ctx on the heap sch: the heap
\* afterwards, the error returned (Nil: the loop goes on) and what was done
EnrichStep(sch, ctx, propName) ==
    LET propRef == sch[ctx.Schema].Properties[propName]
    IN  IF propRef.Value = Nil
        THEN [schemas |-> sch, err |-> Nil, outcome |-> "skipped"]
        ELSE
        LET v == Deref(propRef.Value)
            gen == generateRules(sch[v])
        IN  IF gen.err # Nil
            THEN [schemas |-> sch, err |-> gen.err, outcome |-> "generr"]
            ELSE
            LET ex == extractAndResetValidateRules(sch[v])
                m == mergeRules(ex.rules, gen.tags)
                oapiRules == PrefixRules(Contains(sch[ctx.Schema].Required, propName),
                                         m.rules)
            IN  IF m.err # Nil
                THEN [schemas |-> [sch EXCEPT ![v] = ex.schema],
                      err |-> m.err, outcome |-> "conflict"]
                ELSE IF oapiRules = <<>>
                THEN [schemas |-> [sch EXCEPT ![v] = DeleteTagKey(ex.schema)],
                      err |-> Nil, outcome |-> "deleted"]
                ELSE [schemas |-> [sch EXCEPT ![v] =
                                      WriteValidate(ex.schema, ex.extMap, Join(oapiRules))],
                      err |-> Nil, outcome |-> "written"]

(***************************************************************************)
(* enrichSpec: PreOrder over toSchemaContext(components) with getChildren, *)
(* the loop body calling enrichNode.  A frame of the stack is one running  *)
(* iterator: of the components (ctx = Nil) or of a node's properties.  Go  *)
(* ranges over a map in an order of its choosing, fixed when the range     *)
(* starts: keys is that order, less the keys already reached.              *)
(***************************************************************************)
Perms(S) == {f \in [1..Cardinality(S) -> S] : \A i, j \in DOMAIN f : f[i] = f[j] => i = j}

Top == stack[Len(stack)]

Pop(st) == SubSeq(st, 1, Len(st) - 1)

\* the reference the top iterator reaches next
NextRef == IF Top.ctx = Nil THEN components[Head(Top.keys)]
           ELSE schemas[Deref(Top.ctx).Schema].Properties[Head(Top.keys)]

\* the SchemaContext the top iterator builds for it
NextContext ==
    [Schema |-> Deref(NextRef.Value),
     Name |-> IF Top.ctx = Nil THEN <<Head(Top.keys)>>
              ELSE Append(Deref(Top.ctx).Name, Head(Top.keys))]

Advance(st) == [st EXCEPT ![Len(st)].keys = Tail(@)]

NoStep == [node |-> 0, prop |-> "", path |-> <<>>, schema |-> 0, outcome |-> "none",
           prev |-> Nil]

\* an iterator passes over a reference without a value
WalkSkip ==
    /\ UNCHANGED <<fvars, wvars>>
    /\ pc = "walk" /\ stack # <<>> /\ Top.keys # <<>>
    /\ NextRef.Value = Nil
    /\ stack' = Advance(stack)
    /\ UNCHANGED <<components, schemas, pc, cur, todo, errs, out, writes, pass,
                   before, last>>

\* an iterator yields a node; walk yields it on to enrichSpec's loop body,
\* which enters enrichNode; toSchemaContext clears the reference's Ref first
WalkYield ==
    /\ UNCHANGED <<fvars, wvars>>
    /\ pc = "walk" /\ stack # <<>> /\ Top.keys # <<>>
    /\ NextRef.Value # Nil
    /\ components' = IF Top.ctx = Nil
                     THEN [components EXCEPT ![Head(Top.keys)].Ref = ""]
                     ELSE components
    /\ stack' = Advance(stack)
    /\ out' = Append(out, NextContext)
    /\ cur' = Ptr(NextContext)
    /\ todo' \in Perms(DOMAIN schemas[NextContext.Schema].Properties)
    /\ pc' = "enrich"
    /\ UNCHANGED <<schemas, errs, writes, pass, before, last>>

\* the loop body is over, yield returns true, walk ranges over getChildren(n)
PushChildren(ctx) ==
    \E keys \in Perms(DOMAIN schemas[ctx.Schema].Properties) :
        stack' = Append(stack, [ctx |-> Ptr(ctx), keys |-> keys])

\* one iteration of enrichNode's loop; an error ends enrichNode at once
EnrichProp ==
    /\ UNCHANGED <<fvars, wvars>>
    /\ pc = "enrich" /\ todo # <<>>
    /\ LET ctx == Deref(cur)
           propName == Head(todo)
           propRef == schemas[ctx.Schema].Properties[propName]
           v == IF propRef.Value = Nil THEN 0 ELSE Deref(propRef.Value)
           r == EnrichStep(schemas, ctx, propName)
       IN  /\ schemas' = r.schemas
           /\ last' = [node |-> ctx.Schema, prop |-> propName,
                       path |-> Append(ctx.Name, propName),
                       schema |-> v, outcome |-> r.outcome,
                       prev |-> IF v = 0 THEN Nil ELSE schemas[v].Extensions]
           /\ writes' = IF r.outcome \in {"written", "deleted"}
                        THEN [writes EXCEPT ![<<ctx.Schema, propName>>] = @ + 1]
                        ELSE writes
           /\ IF r.err # Nil
              THEN /\ errs' = Append(errs, [path |-> Append(ctx.Name, propName),
                                            err |-> Deref(r.err)])
                   /\ todo' = <<>>
                   /\ cur' = Nil
                   /\ pc' = "walk"
                   /\ PushChildren(ctx)
              ELSE /\ todo' = Tail(todo)
                   /\ UNCHANGED <<errs, cur, pc, stack>>
    /\ UNCHANGED <<components, out, pass, before>>

\* enrichNode's loop ran out: it returns nil
EnrichReturn ==
    /\ UNCHANGED <<fvars, wvars>>
    /\ pc = "enrich" /\ todo = <<>>
    /\ PushChildren(Deref(cur))
    /\ cur' = Nil
    /\ pc' = "walk"
    /\ UNCHANGED <<components, schemas, todo, errs, out, writes, pass, before, last>>

\* an iterator is exhausted: walk (or PreOrder itself) returns
WalkReturn ==
    /\ UNCHANGED <<fvars, wvars>>
    /\ pc = "walk" /\ stack # <<>> /\ Top.keys = <<>>
    /\ stack' = Pop(stack)
    /\ pc' = IF Len(stack) = 1 THEN "done" ELSE "walk"
    /\ UNCHANGED <<components, schemas, cur, todo, errs, out, writes, pass,
                   before, last>>

\* enrichSpec is run again on the document a pass without error left
Rerun ==
    /\ UNCHANGED <<fvars, wvars>>
    /\ pc = "done" /\ errs = <<>> /\ pass < MaxPasses
    /\ pass' = pass + 1
    /\ before' = schemas
    /\ writes' = [x \in DOMAIN writes |-> 0]
    /\ out' = <<>>
    /\ last' = NoStep
    /\ pc' = "walk"
    /\ \E keys \in Perms(DOMAIN components) : stack' = <<[ctx |-> Nil, keys |-> keys]>>
    /\ UNCHANGED <<components, schemas, cur, todo, errs>>

(***************************************************************************)
(* The documents enrichSpec is run on.                                     *)
(***************************************************************************)
NoConstraints ==
    [MultipleOf |-> Nil, Pattern |-> "", MinLength |-> 0, MaxLength |-> Nil,
     Min |-> Nil, ExclusiveMin |-> FALSE, Max |-> Nil, ExclusiveMax |-> FALSE,
     MinItems |-> 0, MaxItems |-> Nil, UniqueItems |-> FALSE, Format |-> ""]

With(overrides) == overrides @@ NoConstraints

ManualTag == <<"m", "a", "n", "u", "a", "l", "_", "t", "a", "g">>

\* constraint sets of a property: none; minLength 5; multipleOf; minLength 5
\* with minItems 10; email with uniqueItems; a pattern holding a comma
SmallConstraints ==
    {NoConstraints, With([MinLength |-> 5]), With([MultipleOf |-> Ptr(4)])}

ConstraintMenu ==
    SmallConstraints
    \cup {With([MinLength |-> 5, MinItems |-> 10]),
          With([Format |-> "email", UniqueItems |-> TRUE]),
          With([Pattern |-> "a,b"])}

Stored(value) == Ptr(tagKey :> (validate :> value))

\* extensions of a property: no map; validate "min=3"; validate "min=5";
\* validate "manual_tag"; a padded validate beside another tag; another tag
\* alone; an empty validate; a map without tagKey
SmallExtensions == {Nil, Stored(Min3)}

ExtensionMenu ==
    SmallExtensions
    \cup {Stored(Min5), Stored(ManualTag),
          Ptr(tagKey :> (validate :> (<<" ">> \o unique \o <<" ", ",", " ">>)
                         @@ "json" :> <<"x">>)),
          Ptr(tagKey :> ("json" :> <<"x">>)),
          Stored(<<>>),
          Ptr(EmptyMap)}

Fillings == [c : ConstraintMenu, e : ExtensionMenu]
SmallFillings == [c : SmallConstraints, e : SmallExtensions]

\* a schema reference: Value is the resolved schema (0: unresolved)
R(v, ref) == [Value |-> IF v = 0 THEN Nil ELSE Ptr(v), Ref |-> ref]

RefB == "#/components/schemas/B"
RefA == "#/components/schemas/A"
RefMissing == "#/components/schemas/Missing"

SchemaIds == {1, 2, 3}
PropNames == {"p", "q"}

\* schema 1 is component A; 2 and 3 are property schemas
DocShapes ==
    {[name |-> "flat", comps |-> "A" :> R(1, ""),
      props |-> <<"p" :> R(2, "") @@ "q" :> R(3, ""), EmptyMap, EmptyMap>>],
     [name |-> "nested", comps |-> "A" :> R(1, ""),
      props |-> <<"p" :> R(2, ""), "q" :> R(3, ""), EmptyMap>>],
     [name |-> "shared", comps |-> "A" :> R(1, "") @@ "B" :> R(2, ""),
      props |-> <<"p" :> R(2, RefB), "q" :> R(3, ""), EmptyMap>>],
     [name |-> "unresolved", comps |-> "A" :> R(1, "") @@ "B" :> R(0, RefMissing),
      props |-> <<"p" :> R(2, "") @@ "q" :> R(0, RefMissing), EmptyMap, EmptyMap>>],
     [name |-> "twice", comps |-> "A" :> R(1, "") @@ "B" :> R(2, ""),
      props |-> <<"p" :> R(2, RefB) @@ "q" :> R(2, RefB), EmptyMap, EmptyMap>>],
     [name |-> "alias", comps |-> "A" :> R(1, "") @@ "B" :> R(1, RefA),
      props |-> <<"p" :> R(2, ""), EmptyMap, EmptyMap>>]}

\* the schemas that are the value of some property
Targets(shape) ==
    {v \in SchemaIds : \E i \in SchemaIds : \E k \in DOMAIN shape.props[i] :
                           shape.props[i][k].Value = Ptr(v)}

RequiredMenu == {<<>>, <<"p">>, <<"q", "p">>}

\* at most one property schema is filled from the whole menu
Fills(shape) ==
    UNION {{[v \in SchemaIds |->
                IF v = focus THEN whole
                ELSE IF v \in Targets(shape) THEN small[v]
                ELSE [c |-> NoConstraints, e |-> Nil]] :
            whole \in Fillings, small \in [Targets(shape) \ {focus} -> SmallFillings]} :
           focus \in Targets(shape)}

Document(shape, req, f) ==
    [v \in SchemaIds |->
        [Properties |-> shape.props[v],
         Required |-> IF DOMAIN shape.props[v] = {} THEN <<>> ELSE req,
         Extensions |-> f[v].e] @@ f[v].c]

DocIdle ==
    /\ components = EmptyMap /\ schemas = EmptyMap /\ pc = "idle" /\ stack = <<>>
    /\ cur = Nil /\ todo = <<>> /\ errs = <<>> /\ out = <<>> /\ writes = EmptyMap
    /\ pass = 0 /\ before = EmptyMap /\ last = NoStep

WalkIdle == wstack = <<>> /\ wout = <<>> /\ wpc = "idle" /\ calls = <<>>

Init ==
    /\ inp = <<>> /\ res = <<>>
    /\ WalkIdle
    /\ \E shape \in DocShapes, req \in RequiredMenu :
          /\ components = shape.comps
          /\ \E f \in Fills(shape) : schemas = Document(shape, req, f)
    /\ before = schemas
    /\ pc = "walk"
    /\ \E keys \in Perms(DOMAIN components) : stack = <<[ctx |-> Nil, keys |-> keys]>>
    /\ cur = Nil /\ todo = <<>> /\ errs = <<>> /\ out = <<>>
    /\ writes = [x \in SchemaIds \X PropNames |-> 0]
    /\ pass = 1
    /\ last = NoStep

Next ==
    \/ WalkSkip
    \/ WalkYield
    \/ EnrichProp
    \/ EnrichReturn
    \/ WalkReturn
    \/ Rerun

Spec == Init /\ [][Next]_vars

(***************************************************************************)
(* SpecGen: generateRules called on one constraint set.                    *)
(***************************************************************************)
LenVals == {5 * i : i \in 0..MaxVal}
TopVals == {0, 5 * MaxVal}
HalfVals == {-1, 2 * MaxVal + 1}
Patterns == {"", "a", "("}
Formats == {"", "email", "uuid", "ipv4", "ipv6", "uri", "url", "date"}

Constraints ==
    [MultipleOf : {Nil, Ptr(4)}, Pattern : Patterns,
     MinLength : LenVals, MaxLength : {Nil} \cup {Ptr(v) : v \in TopVals},
     Min : {Nil} \cup {Ptr(v) : v \in HalfVals}, ExclusiveMin : BOOLEAN,
     Max : {Nil} \cup {Ptr(v) : v \in HalfVals}, ExclusiveMax : BOOLEAN,
     MinItems : LenVals, MaxItems : {Nil} \cup {Ptr(v) : v \in TopVals},
     UniqueItems : BOOLEAN, Format : Formats]

\* the exclusive flags are read only beside their bound
GenInputs ==
    {s \in Constraints : /\ (s.Min = Nil => ~s.ExclusiveMin)
                         /\ (s.Max = Nil => ~s.ExclusiveMax)}

GenInit == /\ inp \in GenInputs
           /\ res = <<>>
           /\ DocIdle /\ WalkIdle

GenCall == /\ Len(res) < MaxCalls
           /\ res' = Append(res, generateRules(inp))
           /\ UNCHANGED inp
           /\ UNCHANGED <<dvars, wvars>>

GenNext == GenCall

SpecGen == GenInit /\ [][GenNext]_vars

(***************************************************************************)
(* SpecMerge: mergeRules called on two rule lists.                         *)
(***************************************************************************)

\* generated rules are rules generateRules can emit; existing rules are what
\* a caller may pass, padded and empty ones included
GenTokens == {Min3, Min5, Max5, unique}
MergeTokens == GenTokens \cup {<<" ">> \o Min5, <<>>}

RuleLists(tokens) == UNION {[1..n -> tokens] : n \in 0..MaxRules}

MergeInit == /\ inp \in [existing : RuleLists(MergeTokens), generated : RuleLists(GenTokens)]
             /\ res = <<>>
             /\ DocIdle /\ WalkIdle /\ WalkIdle

MergeCall == /\ Len(res) < MaxCalls
             /\ res' = Append(res, mergeRules(inp.existing, inp.generated))
             /\ UNCHANGED inp
             /\ UNCHANGED <<dvars, wvars>>

MergeNext == MergeCall

SpecMerge == MergeInit /\ [][MergeNext]_vars

(***************************************************************************)
(* SpecWalk: tree.PreOrder over a forest of nodes 1..MaxNodes, handed to a *)
(* consumer that breaks out of its loop at the k-th node (yield then       *)
(* returns false).  inp.roots is the root sequence, inp.kids[n] the        *)
(* sequence getChildren(n) produces.  A frame is what a running iterator   *)
(* has still to produce.                                                   *)
(***************************************************************************)
\* the children of n under the parent map par, in rising or falling order
RECURSIVE SortedSeq(_, _)
SortedSeq(S, rising) ==
    IF S = {} THEN <<>>
    ELSE LET x == CHOOSE y \in S : \A z \in S : IF rising THEN y <= z ELSE y >= z
         IN  <<x>> \o SortedSeq(S \ {x}, rising)

Forest(par, rising) ==
    [roots |-> SortedSeq({n \in 1..MaxNodes : par[n] = 0}, rising),
     kids |-> [n \in 1..MaxNodes |->
                  SortedSeq({c \in 1..MaxNodes : par[c] = n}, rising)]]

\* every node's parent is a node of smaller number, or none (0): no cycle
ParentMaps == {par \in [1..MaxNodes -> 0..MaxNodes] : \A n \in 1..MaxNodes : par[n] < n}

WalkInit ==
    /\ \E par \in ParentMaps, rising \in BOOLEAN, k \in 1..(MaxNodes + 1) :
          inp = [k |-> k] @@ Forest(par, rising)
    /\ res = <<>>
    /\ DocIdle
    /\ wstack = <<inp.roots>>
    /\ wout = <<>>
    /\ wpc = "run"
    /\ calls = <<>>

WTop == wstack[Len(wstack)]

\* the consumer's loop body: it breaks at the k-th node it is handed
ConsumerGoesOn(count) == count # inp.k

WalkVisitDeaf ==
    /\ wpc = "run" /\ wstack # <<>> /\ WTop # <<>>
    /\ LET n == Head(WTop)
       IN  /\ wout' = Append(wout, n)
           /\ calls' = Append(calls, n)
           /\ wstack' = Append([wstack EXCEPT ![Len(wstack)] = Tail(@)], inp.kids[n])
           /\ wpc' = "run"
    /\ UNCHANGED <<fvars, dvars>>

\* an iterator produces its next node n and walk(n) runs: it yields n and,
\* unless yield returns false, ranges over getChildren(n)
WalkVisit ==
    /\ wpc = "run" /\ wstack # <<>> /\ WTop # <<>>
    /\ LET n == Head(WTop)
       IN  /\ wout' = Append(wout, n)
           /\ IF ConsumerGoesOn(Len(wout) + 1)
              THEN /\ calls' = Append(calls, n)
                   /\ wstack' = Append([wstack EXCEPT ![Len(wstack)] = Tail(@)],
                                       inp.kids[n])
                   /\ wpc' = "run"
              ELSE /\ wstack' = [wstack EXCEPT ![Len(wstack)] = Tail(@)]
                   /\ wpc' = "unwind"
                   /\ UNCHANGED calls
    /\ UNCHANGED <<fvars, dvars>>

\* an iterator has nothing left: the range loop ends, walk returns true
WalkExhausted ==
    /\ wpc = "run" /\ wstack # <<>> /\ WTop = <<>>
    /\ wstack' = Pop(wstack)
    /\ wpc' = IF Len(wstack) = 1 THEN "done" ELSE "run"
    /\ UNCHANGED <<wout, calls, fvars, dvars>>

\* walk returned false: the enclosing loop body returns false (or PreOrder
\* returns), which ends that iterator whatever it had left
WalkUnwind ==
    /\ wpc = "unwind" /\ wstack # <<>>
    /\ wstack' = Pop(wstack)
    /\ wpc' = IF Len(wstack) = 1 THEN "done" ELSE "unwind"
    /\ UNCHANGED <<wout, calls, fvars, dvars>>

WalkNext == WalkVisit \/ WalkExhausted \/ WalkUnwind

SpecWalk == WalkInit /\ [][WalkNext]_vars

(***************************************************************************)
(* Claims about generateRules (SpecGen).                                   *)
(***************************************************************************)
\* the fixed check order, one slot per check: is slot i emitted, and as what
GenSlotOn(s, i) ==
    CASE i = 1 -> s.MinLength > 0
      [] i = 2 -> s.MaxLength # Nil
      [] i = 3 -> s.Min # Nil
      [] i = 4 -> s.Max # Nil
      [] i = 5 -> s.MinItems > 0
      [] i = 6 -> s.MaxItems # Nil
      [] i = 7 -> s.UniqueItems
      [] i = 8 -> s.Format \in {"email", "uuid", "ipv4", "ipv6", "uri", "url"}

GenSlotTag(s, i) ==
    CASE i = 1 -> MinEq \o FmtD(s.MinLength)
      [] i = 2 -> MaxEq \o FmtD(Deref(s.MaxLength))
      [] i = 3 -> (IF s.ExclusiveMin THEN GtEq ELSE MinEq) \o FmtF0(Deref(s.Min))
      [] i = 4 -> (IF s.ExclusiveMax THEN LtEq ELSE MaxEq) \o FmtF0(Deref(s.Max))
      [] i = 5 -> MinEq \o FmtD(s.MinItems)
      [] i = 6 -> MaxEq \o FmtD(Deref(s.MaxItems))
      [] i = 7 -> unique
      [] i = 8 -> CASE s.Format = "email" -> email
                    [] s.Format = "uuid" -> uuid
                    [] s.Format = "ipv4" -> ipv4
                    [] s.Format = "ipv6" -> ipv6
                    [] OTHER -> url

GenSlotsOn(s) == {i \in 1..8 : GenSlotOn(s, i)}

\* the j-th emitted slot, counting from 1
GenNthSlot(s, j) ==
    CHOOSE i \in GenSlotsOn(s) : Cardinality({k \in GenSlotsOn(s) : k < i}) = j - 1

GenExpected(s) ==
    [j \in 1..Cardinality(GenSlotsOn(s)) |-> GenSlotTag(s, GenNthSlot(s, j))]

\* C5: without pattern, generateRules fails on multipleOf and emits nothing,
\* and otherwise returns exactly the rules of the fixed check order (min by
\* minLength, max by maxLength, min|gt by minimum, max|lt by maximum, min by
\* minItems, max by maxItems, unique, the format rule), each only when its
\* condition holds; every call on the same input returns the same result.
C5_GenerateOrder ==
    \A c \in 1..Len(res) :
        /\ inp.Pattern = "" =>
              IF inp.MultipleOf # Nil
              THEN res[c].err # Nil /\ res[c].tags = <<>>
              ELSE res[c].err = Nil /\ res[c].tags = GenExpected(inp)
        /\ res[c] = res[1]

\* every check of the order emits a rule: eight rules, the format rule last
C5_Witness ==
    /\ Len(res) = MaxCalls
    /\ inp.Pattern = ""
    /\ inp.MultipleOf = Nil
    /\ Len(res[1].tags) = 8
    /\ inp.Format = "uri"
    /\ inp.ExclusiveMin /\ ~inp.ExclusiveMax

(***************************************************************************)
(* Claims about mergeRules (SpecMerge).                                    *)
(***************************************************************************)
\* the existing rules as the first loop keeps them
CleanRules(rs) == SelectSeq([i \in 1..Len(rs) |-> TrimSpace(rs[i])], LAMBDA r : r # <<>>)

KeysOf(rs) == {getTagKey(rs[i]) : i \in 1..Len(rs)}

\* a rule list of the data model: trimmed, non-empty rules with distinct keys
IsRuleSet(rs) ==
    /\ CleanRules(rs) = rs
    /\ \A i, j \in 1..Len(rs) : getTagKey(rs[i]) = getTagKey(rs[j]) => i = j

\* the claim, read rule by rule against the existing rules alone
ClaimConflict(ex, gen) ==
    \E i \in 1..Len(gen), j \in 1..Len(ex) :
        getTagKey(gen[i]) = getTagKey(ex[j]) /\ gen[i] # ex[j]

ClaimAppended(ex, gen) == SelectSeq(gen, LAMBDA g : getTagKey(g) \notin KeysOf(ex))

\* C4 as claimed, for existing rules that form a rule set: a generated rule
\* is judged against the existing rules only, so that with no key shared with
\* an existing rule every generated rule is appended and the merge succeeds.
C4_Original ==
    \A c \in 1..Len(res) :
        IsRuleSet(inp.existing) =>
            IF ClaimConflict(inp.existing, inp.generated)
            THEN res[c].err # Nil
            ELSE /\ res[c].err = Nil
                 /\ res[c].rules = inp.existing \o ClaimAppended(inp.existing, inp.generated)

\* the rule on record for the key of generated rule i when the second loop
\* reaches it: the last existing rule of that key, else the first earlier
\* generated rule of that key; Nil when the key is new
RecordedFor(ex, gen, i) ==
    LET k == getTagKey(gen[i])
        inEx == {j \in 1..Len(ex) : getTagKey(ex[j]) = k}
        inGen == {j \in 1..(i - 1) : getTagKey(gen[j]) = k}
    IN  IF inEx # {} THEN Ptr(ex[CHOOSE j \in inEx : \A l \in inEx : l <= j])
        ELSE IF inGen # {} THEN Ptr(gen[CHOOSE j \in inGen : \A l \in inGen : j <= l])
        ELSE Nil

AmendedConflict(ex, gen) ==
    \E i \in 1..Len(gen) :
        RecordedFor(ex, gen, i) # Nil /\ Deref(RecordedFor(ex, gen, i)) # gen[i]

AmendedAppended(ex, gen) ==
    LET new == {i \in 1..Len(gen) : RecordedFor(ex, gen, i) = Nil}
        nth(j) == CHOOSE i \in new : Cardinality({k \in new : k < i}) = j - 1
    IN  [j \in 1..Cardinality(new) |-> gen[nth(j)]]

\* C4 amended: the result starts with the existing rules, trimmed and without
\* the empty ones, in order; each generated rule, in order, is judged against
\* the rule on record for its key (the last existing rule of that key, else
\* the generated rule of that key appended earlier): skipped when identical,
\* a conflict when different, appended and put on record when the key is new.
C4_MergeContract ==
    \A c \in 1..Len(res) :
        LET ex == CleanRules(inp.existing)
        IN  IF AmendedConflict(ex, inp.generated)
            THEN res[c].err # Nil /\ res[c].rules = <<>>
            ELSE /\ res[c].err = Nil
                 /\ res[c].rules = ex \o AmendedAppended(ex, inp.generated)

\* no existing rule, two generated rules of one key: a conflict is reported
C4_Witness ==
    /\ res # <<>>
    /\ inp.existing = <<>>
    /\ inp.generated = <<Min5, Min3>>
    /\ res[1].err = Ptr([kind |-> "conflict", existing |-> Min5, generated |-> Min3])

(***************************************************************************)
(* Claims about enrichSpec (Spec).                                         *)
(***************************************************************************)
\* the validate string stored under tagKey in an Extensions map, if any
ValidateOf(ext) ==
    IF ext = Nil THEN Nil
    ELSE IF tagKey \notin DOMAIN Deref(ext) THEN Nil
    ELSE IF validate \notin DOMAIN Deref(ext)[tagKey] THEN Nil
    ELSE Ptr(Deref(ext)[tagKey][validate])

StoredRules(ext) == IF ValidateOf(ext) = Nil THEN <<>> ELSE ParseRules(Deref(ValidateOf(ext)))

ErrorPaths == {errs[e].path : e \in 1..Len(errs)}

\* the properties of the nodes visited so far
PropsOfVisited ==
    UNION {{[ctx |-> out[i], name |-> k, ref |-> schemas[out[i].Schema].Properties[k]] :
               k \in DOMAIN schemas[out[i].Schema].Properties} : i \in 1..Len(out)}

\* C1 as claimed, for generation failures: when enrichSpec has returned, the
\* path of every property of a visited node whose rules cannot be generated
\* is among the joined errors.
C1_Original ==
    (pc = "done" /\ pass = 1) =>
        \A x \in PropsOfVisited :
            (x.ref.Value # Nil /\ generateRules(schemas[Deref(x.ref.Value)]).err # Nil)
                => Append(x.ctx.Name, x.name) \in ErrorPaths

\* C2 as claimed: a property whose merge fails with a conflict is reported
\* under its path and keeps the validate string it had before the pass.
C2_Original ==
    last.outcome = "conflict" =>
        /\ errs # <<>>
        /\ errs[Len(errs)].path = last.path
        /\ errs[Len(errs)].err.kind = "conflict"
        /\ ValidateOf(schemas[last.schema].Extensions)
               = ValidateOf(before[last.schema].Extensions)

\* C3 as claimed: a second pass over a document the first pass enriched
\* without error succeeds and leaves every stored validate string as it was.
C3_Original ==
    (pc = "done" /\ pass = 2) =>
        /\ errs = <<>>
        /\ \A v \in SchemaIds :
               ValidateOf(schemas[v].Extensions) = ValidateOf(before[v].Extensions)

\* C6: after a successful enrichment of a property its rule string is the
\* merged rules behind one leading word: required when the parent's required
\* list names the property, else omitempty when the merged rules are not
\* empty; else nothing is written and the tag slot is gone from the property.
C6_LeadingToken ==
    last.outcome \in {"written", "deleted"} =>
        LET now == schemas[last.schema].Extensions
            merged == mergeRules(StoredRules(last.prev),
                                 generateRules(schemas[last.schema]).tags).rules
        IN  IF Contains(schemas[last.node].Required, last.prop)
            THEN ValidateOf(now) = Ptr(Join(<<required>> \o merged))
            ELSE IF merged # <<>>
            THEN ValidateOf(now) = Ptr(Join(<<omitempty>> \o merged))
            ELSE now # Nil /\ tagKey \notin DOMAIN Deref(now)

\* a required property without constraints or stored rules gets "required"
C6_Witness ==
    /\ last.outcome = "written"
    /\ last.prev = Nil
    /\ generateRules(schemas[last.schema]).tags = <<>>
    /\ ValidateOf(schemas[last.schema].Extensions) = Ptr(required)

WellFormedRules(rules) ==
    /\ \A i, j \in 1..Len(rules) : getTagKey(rules[i]) = getTagKey(rules[j]) => i = j
    /\ \A i \in 2..Len(rules) : rules[i] \notin {required, omitempty}

\* C8 as claimed: every rule string enrichSpec writes is well-formed.
C8_Original ==
    last.outcome = "written" =>
        WellFormedRules(SplitSeq(Deref(ValidateOf(schemas[last.schema].Extensions))))

\* C10 as claimed, for passes without error: when the pass is over, the tag
\* slot of every property of a visited node has been written or deleted
\* exactly once.
C10_Original ==
    (pc = "done" /\ errs = <<>>) =>
        \A x \in PropsOfVisited :
            x.ref.Value # Nil => writes[<<x.ctx.Schema, x.name>>] = 1

\* the schema reference a node was produced through: its Name is the
\* component's name followed by the property names that lead to it
RECURSIVE RefAt(_)
RefAt(name) ==
    IF Len(name) = 1 THEN components[name[1]]
    ELSE schemas[Deref(RefAt(SubSeq(name, 1, Len(name) - 1)).Value)]
             .Properties[name[Len(name)]]

\* C11 as claimed: every node produced so far was produced through a
\* reference, of a component or of a property, that has a resolved value and
\* whose Ref has been cleared.
C11_Original ==
    \A i \in 1..Len(out) :
        /\ RefAt(out[i].Name).Value = Ptr(out[i].Schema)
        /\ RefAt(out[i].Name).Ref = ""

(***************************************************************************)
(* Claims about PreOrder (SpecWalk).                                       *)
(***************************************************************************)
\* the depth-first pre-order listing of the forest below a node sequence
RECURSIVE PreOrderList(_)
PreOrderList(ns) ==
    IF ns = <<>> THEN <<>>
    ELSE <<Head(ns)>> \o PreOrderList(inp.kids[Head(ns)]) \o PreOrderList(Tail(ns))

Listing == PreOrderList(inp.roots)

Min2(a, b) == IF a < b THEN a ELSE b

\* C9: what the consumer is handed is always a front part of the pre-order
\* listing, never more than k nodes, and exactly the first k (or all) once
\* PreOrder has returned; getChildren was called on the nodes handed over
\* before yield returned false and on no other, and once yield has returned
\* false no iterator produces another node.
C9_PreOrderPrefix ==
    /\ Len(wout) <= Min2(inp.k, Len(Listing))
    /\ wout = SubSeq(Listing, 1, Len(wout))
    /\ wpc = "done" => Len(wout) = Min2(inp.k, Len(Listing))
    /\ calls = IF wpc = "unwind" \/ (wpc = "done" /\ Len(wout) = inp.k)
               THEN SubSeq(wout, 1, Len(wout) - 1) ELSE wout
    /\ wpc = "unwind" => Len(wout) = inp.k

\* the consumer stopped at the second of four nodes, inside a subtree, with
\* a sibling and a second root never produced
C9_Witness ==
    /\ wpc = "done"
    /\ inp.k = 2
    /\ inp.roots = <<1, 4>>
    /\ inp.kids[1] = <<2, 3>>
    /\ wout = <<1, 2>>
    /\ calls = <<1>>

====
